---- MODULE Spec2Model ----
(***************************************************************************)
(* Model of src/app.py: the pipe-delimited text parser parse_text_file     *)
(* and the multi-rule XLOOKUP loop of the run_lookup block.                *)
(*                                                                         *)
(* Text is a sequence of one-character strings, so that strip, count,      *)
(* replace, split and the f-string column names are computed character by  *)
(* character as Python computes them.                                      *)
(***************************************************************************)
EXTENDS Integers, Sequences, FiniteSets, TLC

VARIABLES
    \* ---- parse_text_file ----
    nrows,          \* the nrows argument (None or an integer)
    seen,           \* the physical lines the for loop has iterated over
    line_no,        \* line_no
    rows,           \* rows
    col_count,      \* col_count
    df,             \* the returned DataFrame: [columns, data]
    pc,             \* position in parse_text_file
    \* ---- run_lookup block ----
    primary_df,     \* primary_df   [columns, data]
    secondary_df,   \* secondary_df [columns, data]
    rules,          \* rules: sequence of <<pk, sk, so>>
    idx,            \* number of rules the for loop has been through
    result_df,      \* result_df
    used_columns,   \* used_columns
    new_cols,       \* new_col of every iteration so far, in order
    errors,         \* the rule numbers st.error was called for
    mpc             \* position in the run_lookup block

parseVars == <<nrows, seen, line_no, rows, col_count, df, pc>>
mergeVars == <<primary_df, secondary_df, rules, idx, result_df, used_columns,
               new_cols, errors, mpc>>
vars == <<nrows, seen, line_no, rows, col_count, df, pc,
          primary_df, secondary_df, rules, idx, result_df, used_columns,
          new_cols, errors, mpc>>

\* ------------------------------------------------------------------ bounds
MaxLines == 3       \* physical lines read from one stream
MaxCap == 2         \* largest nrows tried
MaxRules == 2       \* rules in one merge (the widget allows 1..10)

\* --------------------------------------------------------------- constants
None == -1          \* Python's None where an integer is expected
Quote == "\""
Sep == "|"
NL == "\n"
\* characters str.strip() removes (those that occur in the modelled inputs)
Whitespace == {" ", "\t", "\n", "\r"}
NoFrame == [columns |-> <<>>, data |-> <<>>]

\* ------------------------------------------------------- Python str helpers
Last(s) == s[Len(s)]
Front(s) == SubSeq(s, 1, Len(s) - 1)

RECURSIVE LStrip(_, _)
LStrip(s, chars) ==
    IF s # <<>> /\ Head(s) \in chars THEN LStrip(Tail(s), chars) ELSE s

RECURSIVE RStrip(_, _)
RStrip(s, chars) ==
    IF s # <<>> /\ Last(s) \in chars THEN RStrip(Front(s), chars) ELSE s

\* str.strip(chars): every leading and every trailing character in chars
Strip(s, chars) == RStrip(LStrip(s, chars), chars)

\* str.count(ch)
Count(s, ch) == Cardinality({i \in 1..Len(s) : s[i] = ch})

\* str.replace(ch, '')
Remove(s, ch) == SelectSeq(s, LAMBDA c : c # ch)

\* str.split(sep): always at least one part, no escaping
RECURSIVE SplitFrom(_, _, _, _)
SplitFrom(s, sep, done, cur) ==
    IF s = <<>> THEN Append(done, cur)
    ELSE IF Head(s) = sep THEN SplitFrom(Tail(s), sep, Append(done, cur), <<>>)
    ELSE SplitFrom(Tail(s), sep, done, Append(cur, Head(s)))

Split(s, sep) == SplitFrom(s, sep, <<>>, <<>>)

\* ---------------------------------------------------------- parse_text_file
\* line = line.strip("\n").strip()
StripLine(physical) == Strip(Strip(physical, {NL}), Whitespace)

\* if line.count('"') % 2 != 0: line = line.replace('"', '')
RepairQuotes(line) ==
    IF Count(line, Quote) % 2 # 0 THEN Remove(line, Quote) ELSE line

\* the first row defines the column count; later rows are padded or cut
FixWidthNoCut(parts, cc) ==
    IF cc = None THEN parts
    ELSE IF Len(parts) < cc
         THEN parts \o [i \in 1..(cc - Len(parts)) |-> <<>>]
         ELSE parts
FixWidthPadLeft(parts, cc) ==
    IF cc = None THEN parts
    ELSE IF Len(parts) < cc
         THEN [i \in 1..(cc - Len(parts)) |-> <<>>] \o parts
         ELSE IF Len(parts) > cc THEN SubSeq(parts, 1, cc) ELSE parts
FixWidth(parts, cc) ==
    IF cc = None THEN parts
    ELSE IF Len(parts) < cc
         THEN parts \o [i \in 1..(cc - Len(parts)) |-> <<>>]
         ELSE IF Len(parts) > cc THEN SubSeq(parts, 1, cc) ELSE parts

\* p.strip().strip('"')
CleanFieldOneLayer(p) ==
    LET s == Strip(p, Whitespace)
        t == IF s # <<>> /\ Head(s) = Quote THEN Tail(s) ELSE s
    IN  IF t # <<>> /\ Last(t) = Quote THEN Front(t) ELSE t
CleanField(p) == Strip(Strip(p, Whitespace), {Quote})

\* `if nrows and len(rows) >= nrows`: None and 0 are both falsy
CapReached(n, rs) == n # None /\ n # 0 /\ Len(rs) >= n

\* the lines a stream can hold, without their line terminator
LinePool == {
    <<>>,
    <<" ", "\t">>,
    <<"A", "|", "B", "|", "C">>,
    <<"1", "|", "2", "|", "3">>,
    <<"4", "|", "5">>,
    <<"|">>,
    <<"\"", "\"", "a", "\"", "\"", "|", "b">>,
    <<" ", "\"", "a", "\"", " ", "|", " ", "b", " ", "|", "c", "|", "d", " ">>,
    <<"\"", "a", "|", "b">>,
    <<"\"", "\"", "a", "|", "b", "\"">>,
    <<"\"", " ", "a", " ", "\"">>
}

InitParse ==
    /\ nrows \in {None} \cup 0..MaxCap
    /\ seen = <<>>
    /\ line_no = 0
    /\ rows = <<>>
    /\ col_count = None
    /\ df = NoFrame
    /\ pc = "loop"
    /\ primary_df = NoFrame
    /\ secondary_df = NoFrame
    /\ rules = <<>>
    /\ idx = 0
    /\ result_df = NoFrame
    /\ used_columns = {}
    /\ new_cols = <<>>
    /\ errors = {}
    /\ mpc = "off"

\* one iteration of `for line in f`
ReadLine(content) ==
    /\ pc = "loop"
    /\ line_no < MaxLines
    /\ LET physical == Append(content, NL)
           line == StripLine(physical)
           repaired == RepairQuotes(line)
           parts == Split(repaired, Sep)
           fixed == FixWidth(parts, col_count)
           cleaned == [i \in 1..Len(fixed) |-> CleanField(fixed[i])]
       IN  /\ line_no' = line_no + 1
           /\ seen' = Append(seen, physical)
           /\ IF CapReached(nrows, rows)
              THEN /\ pc' = "break"
                   /\ UNCHANGED <<rows, col_count>>
              ELSE IF line = <<>>
              THEN UNCHANGED <<rows, col_count, pc>>
              ELSE /\ col_count' = IF col_count = None THEN Len(parts)
                                   ELSE col_count
                   /\ rows' = Append(rows, cleaned)
                   /\ pc' = pc
    /\ UNCHANGED <<nrows, df>>
    /\ UNCHANGED mergeVars

\* the stream has no further line: the for loop ends
EndOfFile ==
    /\ pc = "loop"
    /\ pc' = "eof"
    /\ UNCHANGED <<nrows, seen, line_no, rows, col_count, df>>
    /\ UNCHANGED mergeVars

\* df = pd.DataFrame(rows); df.columns = df.iloc[0].tolist(); df = df[1:]
\* df.iloc[0] of a frame without rows raises IndexError
BuildFrame ==
    /\ pc \in {"break", "eof"}
    /\ IF rows = <<>>
       THEN /\ pc' = "raised"
            /\ df' = df
       ELSE /\ pc' = "returned"
            /\ df' = [columns |-> rows[1], data |-> Tail(rows)]
    /\ UNCHANGED <<nrows, seen, line_no, rows, col_count>>
    /\ UNCHANGED mergeVars

NextParse ==
    \/ \E content \in LinePool : ReadLine(content)
    \/ EndOfFile
    \/ BuildFrame

SpecParse == InitParse /\ [][NextParse]_vars

\* ------------------------------------------------------------ pandas tables
\* the absent marker Series.map leaves for a key it does not find (NaN)
NaN == <<"nan">>

Range(s) == {s[i] : i \in 1..Len(s)}
ColIndex(frame, name) ==
    CHOOSE i \in 1..Len(frame.columns) : frame.columns[i] = name
\* frame[name] for a frame whose column names are unique
Column(frame, name) ==
    [r \in 1..Len(frame.data) |-> frame.data[r][ColIndex(frame, name)]]

\* secondary_df.set_index(sk)[so]: set_index moves column sk out of the
\* columns (drop=True), so [so] raises KeyError unless so is another column
SetIndexRaises(frame, sk, so) ==
    \/ sk \notin Range(frame.columns)
    \/ so \notin (Range(frame.columns) \ {sk})
SetIndexGet(frame, sk, so) ==
    [index |-> Column(frame, sk), values |-> Column(frame, so)]

\* Series.map(map_series) looks the values up with Index.get_indexer, which
\* raises InvalidIndexError unless the index is uniquely valued
MapRaisesNever(series) == FALSE
MapRaises(series) ==
    \E i, j \in 1..Len(series.index) : i # j /\ series.index[i] = series.index[j]
\* the value at the index entry equal to key (there is at most one when map
\* does not raise), NaN when there is none
MapOne(series, key) ==
    LET hits == {i \in 1..Len(series.index) : series.index[i] = key}
    IN  IF hits = {} THEN NaN
        ELSE series.values[CHOOSE i \in hits : TRUE]
MapValues(col, series) == [r \in 1..Len(col) |-> MapOne(series, col[r])]

\* result_df[new_col] = values, new_col not yet a column
AssignNewColumnInner(frame, name, values) ==
    LET keep == SelectSeq([r \in 1..Len(frame.data) |->
                              Append(frame.data[r], values[r])],
                          LAMBDA row : Last(row) # NaN)
    IN  [columns |-> Append(frame.columns, name), data |-> keep]
AssignNewColumn(frame, name, values) ==
    [columns |-> Append(frame.columns, name),
     data |-> [r \in 1..Len(frame.data) |-> Append(frame.data[r], values[r])]]

\* ------------------------------------------------------------ column names
DigitChar(d) ==
    CASE d = 0 -> "0" [] d = 1 -> "1" [] d = 2 -> "2" [] d = 3 -> "3"
      [] d = 4 -> "4" [] d = 5 -> "5" [] d = 6 -> "6" [] d = 7 -> "7"
      [] d = 8 -> "8" [] d = 9 -> "9"
\* str(c) of a non-negative integer
RECURSIVE Str(_)
Str(n) ==
    IF n < 10 THEN <<DigitChar(n)>>
    ELSE Str(n \div 10) \o <<DigitChar(n % 10)>>

FROM == <<"_", "F", "R", "O", "M", "_">>
\* f"{pk}_FROM_{so}"
BaseName(pk, so) == pk \o FROM \o so
\* f"{base_name}_{c}"
Suffixed(base, c) == base \o <<"_">> \o Str(c)

\* while new_col in used_columns: new_col = f"{base_name}_{c}"; c += 1
RECURSIVE WhileTaken(_, _, _, _)
WhileTaken(base, new_col, c, used) ==
    IF new_col \in used
    THEN WhileTaken(base, Suffixed(base, c), c + 1, used)
    ELSE new_col

NewColNameNoLoop(pk, so, used) ==
    IF BaseName(pk, so) \in used THEN Suffixed(BaseName(pk, so), 2)
    ELSE BaseName(pk, so)
NewColName(pk, so, used) == WhileTaken(BaseName(pk, so), BaseName(pk, so), 2, used)

\* ---------------------------------------------------------- run_lookup block
ID == <<"I", "D">>
NAME == <<"N", "A", "M", "E">>

\* primary tables (column names unique)
PrimaryPool == {
    [columns |-> <<ID>>, data |-> << <<<<"1">>>>, <<<<"2">>>>, <<<<"3">>>> >>],
    [columns |-> <<ID, BaseName(ID, NAME)>>,
     data |-> << <<<<"2">>, <<"p">>>>, <<<<"7">>, <<"q">>>>, <<<<"2">>, <<>>>> >>],
    [columns |-> <<NAME, ID>>, data |-> <<>>]
}

\* secondary tables (column names unique)
SecondaryPool == {
    [columns |-> <<ID, NAME>>,
     data |-> << <<<<"2">>, <<"x">>>>, <<<<"3">>, <<"y">>>> >>],
    [columns |-> <<ID, NAME>>,
     data |-> << <<<<"2">>, <<"x">>>>, <<<<"3">>, <<"y">>>>, <<<<"2">>, <<"z">>>> >>],
    [columns |-> <<NAME, ID>>,
     data |-> << <<<<"x">>, <<"7">>>>, <<<<"x">>, <<"7">>>> >>],
    [columns |-> <<ID, NAME>>, data |-> <<>>]
}

\* each rule's three columns come from selectboxes over p_cols and s_cols
RuleChoices(p, s) ==
    {<<pk, sk, so>> : pk \in Range(p.columns),
                      sk \in Range(s.columns), so \in Range(s.columns)}
RuleLists(p, s) ==
    UNION {[1..n -> RuleChoices(p, s)] : n \in 1..MaxRules}

InitMerge ==
    /\ nrows = None
    /\ seen = <<>>
    /\ line_no = 0
    /\ rows = <<>>
    /\ col_count = None
    /\ df = NoFrame
    /\ pc = "off"
    /\ primary_df \in PrimaryPool
    /\ secondary_df \in SecondaryPool
    /\ rules \in RuleLists(primary_df, secondary_df)
    /\ idx = 0
    /\ result_df = NoFrame
    /\ used_columns = {}
    /\ new_cols = <<>>
    /\ errors = {}
    /\ mpc = "ready"

\* the button is pressed: result_df = primary_df.copy();
\* used_columns = set(result_df.columns)
RunLookup ==
    /\ mpc = "ready"
    /\ result_df' = primary_df
    /\ used_columns' = Range(primary_df.columns)
    /\ mpc' = "loop"
    /\ UNCHANGED <<primary_df, secondary_df, rules, idx, new_cols, errors>>
    /\ UNCHANGED parseVars

\* except Exception as e: st.error(f"Rule #{idx} failed ...")
ExceptBranchResets(n) ==
    /\ errors' = errors \cup {n}
    /\ result_df' = primary_df
ExceptBranch(n) ==
    /\ errors' = errors \cup {n}
    /\ result_df' = result_df

\* one iteration of `for idx, (pk, sk, so) in enumerate(rules, start=1)`
RuleStep ==
    /\ mpc = "loop"
    /\ idx < Len(rules)
    /\ LET pk == rules[idx + 1][1]
           sk == rules[idx + 1][2]
           so == rules[idx + 1][3]
           new_col == NewColName(pk, so, used_columns)
       IN  /\ used_columns' = used_columns \cup {new_col}
           /\ new_cols' = Append(new_cols, new_col)
           /\ idx' = idx + 1
           /\ IF SetIndexRaises(secondary_df, sk, so)
              THEN ExceptBranch(idx + 1)
              ELSE LET map_series == SetIndexGet(secondary_df, sk, so)
                   IN  IF MapRaises(map_series)
                       THEN ExceptBranch(idx + 1)
                       ELSE /\ errors' = errors
                            /\ result_df' =
                                 AssignNewColumn(result_df, new_col,
                                     MapValues(Column(result_df, pk), map_series))
    /\ UNCHANGED <<primary_df, secondary_df, rules, mpc>>
    /\ UNCHANGED parseVars

\* after the loop: st.success, the result is shown and handed to export_df
Finish ==
    /\ mpc = "loop"
    /\ idx = Len(rules)
    /\ mpc' = "done"
    /\ UNCHANGED <<primary_df, secondary_df, rules, idx, result_df,
                   used_columns, new_cols, errors>>
    /\ UNCHANGED parseVars

NextMerge ==
    \/ RunLookup
    \/ RuleStep
    \/ Finish

SpecMerge == InitMerge /\ [][NextMerge]_vars

\* ===================================================================== claims
\* ------------------------------------------------------------ parser helpers
IsBlank(physical) == StripLine(physical) = <<>>
\* the non-blank physical lines read so far, in order
NonBlank == SelectSeq(seen, LAMBDA l : ~IsBlank(l))
\* the split fields of a non-blank physical line
FieldsOf(physical) == Split(RepairQuotes(StripLine(physical)), Sep)
\* number of separators plus one
FieldCount(physical) == Count(StripLine(physical), Sep) + 1
Min(a, b) == IF a < b THEN a ELSE b

\* C1 (Rectangularity): once a non-blank line has been read, the column count
\* is the field count of the first non-blank line and stays so, every row
\* accumulated so far has exactly that many cells, and in the returned table
\* every data row has as many cells as the header.
C1_Rectangularity ==
    /\ (rows = <<>>) <=> (col_count = None)
    /\ (rows = <<>>) <=> (NonBlank = <<>>)
    /\ rows # <<>> =>
          /\ col_count = FieldCount(NonBlank[1])
          /\ \A i \in 1..Len(rows) : Len(rows[i]) = col_count
    /\ pc = "returned" =>
          \A r \in 1..Len(df.data) : Len(df.data[r]) = Len(df.columns)

\* a table was returned whose stream held a line shorter and a line longer
\* than the header
C1_Witness ==
    /\ pc = "returned"
    /\ Len(df.data) >= 2
    /\ \E i, j \in 2..Len(NonBlank) :
          /\ FieldCount(NonBlank[i]) < col_count
          /\ FieldCount(NonBlank[j]) > col_count

\* C2 (Empty result is not an error): when the stream produced zero rows,
\* parse_text_file returns normally with a table without columns and rows.
C2_EmptyResultReturns ==
    (pc \in {"returned", "raised"} /\ rows = <<>>) =>
        (pc = "returned" /\ df = NoFrame)

\* C3 (Row-cap early stop): with an integer cap k >= 0 the returned table has
\* at most k data rows.
C3_RowCap ==
    (pc = "returned" /\ nrows # None) => Len(df.data) <= nrows

\* C4 (Width normalization): every non-blank line gives exactly one row; for
\* a line after the first with split fields f1..fm and locked count n the row
\* is the cleaned f1..fm followed by n-m empty cells when m < n and the
\* cleaned f1..fn when m > n, so a dropped field is in no row; the lines
\* A|B|C, 1|2|3, 4|5 give columns [A,B,C] and rows [1,2,3], [4,5,""].
C4_WidthNormalization ==
    /\ Len(rows) <= Len(NonBlank)
    /\ pc \in {"loop", "eof"} => Len(rows) = Len(NonBlank)
    /\ \A i \in 2..Len(rows) :
          LET f == FieldsOf(NonBlank[i])
          IN  /\ DOMAIN rows[i] = 1..col_count
              /\ \A j \in 1..col_count :
                    rows[i][j] = IF j <= Len(f) THEN CleanField(f[j]) ELSE <<>>
    /\ ( /\ pc = "returned"
         /\ nrows = None
         /\ seen = << <<"A", "|", "B", "|", "C", "\n">>,
                      <<"1", "|", "2", "|", "3", "\n">>,
                      <<"4", "|", "5", "\n">> >> )
       => df = [columns |-> << <<"A">>, <<"B">>, <<"C">> >>,
                data |-> << << <<"1">>, <<"2">>, <<"3">> >>,
                            << <<"4">>, <<"5">>, <<>> >> >>]

\* the loop has read a header, a line that was padded and a line from which a
\* non-empty field was dropped
C4_Witness ==
    /\ pc = "eof"
    /\ Len(rows) = 3
    /\ \E i, j \in 2..3 :
          /\ Len(FieldsOf(NonBlank[i])) < col_count
          /\ Len(FieldsOf(NonBlank[j])) > col_count
          /\ Last(FieldsOf(NonBlank[j])) # <<>>

\* c is s without its leading and trailing run of characters in chars
IsStripOf(c, s, chars) ==
    \E a, b \in 0..Len(s) :
        /\ a + b <= Len(s)
        /\ c = SubSeq(s, a + 1, Len(s) - b)
        /\ \A k \in 1..a : s[k] \in chars
        /\ \A k \in (Len(s) - b + 1)..Len(s) : s[k] \in chars
        /\ c = <<>> \/ (c[1] \notin chars /\ c[Len(c)] \notin chars)
SubSeqs(s) == {SubSeq(s, a, b) : a \in 1..(Len(s) + 1), b \in 0..Len(s)}
\* s with at most one quote removed from each end
OneLayerOff(s) ==
    LET t == IF Len(s) >= 1 /\ s[1] = Quote THEN SubSeq(s, 2, Len(s)) ELSE s
    IN  IF Len(t) >= 1 /\ t[Len(t)] = Quote THEN SubSeq(t, 1, Len(t) - 1) ELSE t

\* C10 as stated (one layer of quotes): every cell is its split field with
\* surrounding whitespace stripped and at most one double quote removed from
\* each end.
C10_OneLayerOnly ==
    \A i \in 1..Len(rows) :
        LET f == FieldsOf(NonBlank[i])
        IN  \A j \in 1..Min(Len(f), col_count) :
               \E s \in SubSeqs(f[j]) :
                  /\ IsStripOf(s, f[j], Whitespace)
                  /\ rows[i][j] = OneLayerOff(s)

\* C10 as amended: every cell is its split field with surrounding whitespace
\* stripped and then every leading and every trailing double quote removed,
\* so a cell never starts or ends with a double quote.
C10_AllSurroundingQuotes ==
    \A i \in 1..Len(rows) :
        LET f == FieldsOf(NonBlank[i])
        IN  \A j \in 1..Min(Len(f), col_count) :
               \E s \in SubSeqs(f[j]) :
                  /\ IsStripOf(s, f[j], Whitespace)
                  /\ IsStripOf(rows[i][j], s, {Quote})

\* a row was produced from a field wrapped in two layers of quotes on a line
\* with an even quote count
C10_Witness ==
    \E i \in 1..Len(rows) :
        LET f == FieldsOf(NonBlank[i])
        IN  /\ Count(StripLine(NonBlank[i]), Quote) % 2 = 0
            /\ f[1] = <<"\"", "\"", "a", "\"", "\"">>
            /\ rows[i][1] = <<"a">>

\* ------------------------------------------------------------- merge helpers
PCols == Len(primary_df.columns)
Started == mpc \in {"loop", "done"}
\* rows a and b of the secondary table carry the same key for rule i
SameKey(i, a, b) ==
    Column(secondary_df, rules[i][2])[a] = Column(secondary_df, rules[i][2])[b]
\* the key column of rule i holds some value twice
DuplicateKeys(i) ==
    \E a, b \in 1..Len(secondary_df.data) : a # b /\ SameKey(i, a, b)
\* ... with different values in the rule's source column
DuplicateKeysDifferentSource(i) ==
    \E a, b \in 1..Len(secondary_df.data) :
        /\ a # b
        /\ SameKey(i, a, b)
        /\ Column(secondary_df, rules[i][3])[a] # Column(secondary_df, rules[i][3])[b]
\* the secondary rows whose key equals the key cell of primary row r
Matches(i, r) ==
    {a \in 1..Len(secondary_df.data) :
        Column(secondary_df, rules[i][2])[a] = Column(primary_df, rules[i][1])[r]}
\* the looked-up cell of primary row r under rule i: the source value of the
\* last matching secondary row, the absent marker when there is none
Looked(i, r) ==
    IF Matches(i, r) = {} THEN NaN
    ELSE Column(secondary_df, rules[i][3])
            [CHOOSE a \in Matches(i, r) : \A b \in Matches(i, r) : b <= a]
HasColumn(i) == new_cols[i] \in Range(result_df.columns)

\* C5 (Merge preserves cardinality and order): from the copy on, after every
\* rule step, failed or not, the result has the primary table's rows, in
\* order, with the original columns' names and values unchanged.
C5_CardinalityAndOrder ==
    Started =>
        /\ Len(result_df.data) = Len(primary_df.data)
        /\ Len(result_df.columns) >= PCols
        /\ SubSeq(result_df.columns, 1, PCols) = primary_df.columns
        /\ \A r \in 1..Len(primary_df.data) :
              /\ Len(result_df.data[r]) = Len(result_df.columns)
              /\ SubSeq(result_df.data[r], 1, PCols) = primary_df.data[r]

\* a merge over a secondary table with duplicate keys ended with one rule
\* failed, one column added and an absent cell in it
C5_Witness ==
    /\ mpc = "done"
    /\ errors # {}
    /\ Len(result_df.columns) > PCols
    /\ Len(primary_df.data) >= 2
    /\ \E i \in 1..Len(rules) : DuplicateKeys(i)
    /\ \E r \in 1..Len(result_df.data) : Last(result_df.data[r]) = NaN

UsedBefore(i) == Range(primary_df.columns) \cup {new_cols[j] : j \in 1..(i - 1)}
\* the smallest c >= 2 whose suffixed name is free
SmallestFree(base, used) ==
    CHOOSE c \in 2..(Cardinality(used) + 2) :
        /\ Suffixed(base, c) \notin used
        /\ \A d \in 2..(c - 1) : Suffixed(base, d) \in used
ID_FROM_NAME == <<"I", "D", "_", "F", "R", "O", "M", "_", "N", "A", "M", "E">>

C8_FailureIsolation ==
    /\ [](Started =>
            /\ errors \subseteq 1..idx
            /\ \A i \in 1..idx : (i \in errors) <=> ~HasColumn(i)
            /\ Len(result_df.columns) = PCols + idx - Cardinality(errors)
            /\ \A i \in 1..idx : i \notin errors =>
                  \A r \in 1..Len(primary_df.data) :
                      Column(result_df, new_cols[i])[r] = Looked(i, r))
    /\ [](mpc = "done" => idx = Len(rules))
    /\ [][(mpc = "loop" /\ errors' # errors) =>
             /\ errors' = errors \cup {idx + 1}
             /\ result_df' = result_df
             /\ idx' = idx + 1
             /\ mpc' = "loop"]_vars
    /\ [][mpc = "loop" =>
             /\ SubSeq(result_df'.columns, 1, Len(result_df.columns))
                   = result_df.columns
             /\ \A r \in 1..Len(result_df.data) :
                   SubSeq(result_df'.data[r], 1, Len(result_df.columns))
                      = result_df.data[r]]_vars

\* the first rule added a column, the second failed, and the merge ended
C8_Witness ==
    /\ mpc = "done"
    /\ idx = 2
    /\ errors = {2}
    /\ Len(result_df.columns) = PCols + 1
    /\ Len(result_df.data) >= 1

\* C9 (Missing key gives absent, not error): a rule whose columns exist and
\* whose key column holds unique values does not fail, and each primary row's
\* new cell is the source value of the secondary row with its key, or the
\* absent marker when there is none.
C9_MissingKeyAbsent ==
    \A i \in 1..idx :
        ( /\ rules[i][1] \in Range(primary_df.columns)
          /\ rules[i][2] \in Range(secondary_df.columns)
          /\ rules[i][3] \in Range(secondary_df.columns)
          /\ ~DuplicateKeys(i) )
        => /\ i \notin errors
           /\ HasColumn(i)
           /\ \A r \in 1..Len(primary_df.data) :
                 Column(result_df, new_cols[i])[r] = Looked(i, r)

====
